---- MODULE Spec2Model ----
(***************************************************************************)
(* Model of the salary data pipeline: StatEstoniaAPI.get_mock_salary_data  *)
(* (src/stat_estonia_api.py) and DataProcessor (src/data_processor.py).    *)
(*                                                                         *)
(* Representation.                                                         *)
(*  - A Python str is a sequence of tokens; a token is a maximal run of    *)
(*    characters holding neither "_" nor "-", or one of those separators.  *)
(*    An f-string is the concatenation of its parts.                       *)
(*  - A float is a record [k, v]: k = "num" with an integer v in a fixed   *)
(*    unit, or one of the IEEE specials "inf", "ninf", "nan".  A 'Value'   *)
(*    is counted in thousandths (1000.004 is 1000004), a percentage in     *)
(*    hundredths of a percent (7.25 % is 725).                             *)
(*  - A DataFrame is [columns |-> sequence of names, rows |-> sequence of  *)
(*    rows], a row being a function from the column names to the cells.    *)
(*  - Python passes a DataFrame by reference: an operation on a frame      *)
(*    returns, beside its result (ret), the caller's frame as it is after  *)
(*    the call (df), and the frame returned by get_salary_data is the      *)
(*    object held in data_cache.                                           *)
(***************************************************************************)
EXTENDS Integers, Sequences, FiniteSets, TLC

VARIABLES
    hashSeed,    \* the process's string-hash salt (PYTHONHASHSEED), fixed at start
    data_cache,  \* DataProcessor.data_cache: cache key -> DataFrame
    gen_calls,   \* instrumentation: calls of get_mock_salary_data so far
    generated,   \* instrumentation: query -> the series the generator first returned
    bundles,     \* instrumentation: query -> the bundle first returned for it
    last,        \* the call that completed last: operation, arguments, outcome
    ncalls,      \* instrumentation: calls made by the callers so far
    arg_df,      \* the frame a caller holds and passes to a metrics operation
    arg_key,     \* the cache key arg_df was returned for; <<>> when it is the caller's own
    threads      \* the concurrent callers of get_salary_data: where each one is in it

vars == <<hashSeed, data_cache, gen_calls, generated, bundles, last, ncalls,
          arg_df, arg_key, threads>>

-----------------------------------------------------------------------------
(* Bounds of the model *)

\* calls made to the service in one run
MaxCalls == 3
\* hash salts 0..MaxSeed
MaxSeed == 1
\* rows of a frame passed directly to a metrics operation
MaxLen == 2
\* forecast_years passed directly to forecast_salary_trend: 0..MaxAhead
MaxAhead == 2

-----------------------------------------------------------------------------
(* Integer arithmetic that stays within 32 bits *)

Abs(x) == IF x < 0 THEN -x ELSE x

SeqSum(s) == LET RECURSIVE go(_)
                 go(i) == IF i = 0 THEN 0 ELSE s[i] + go(i - 1)
             IN go(Len(s))

\* the largest value of the 32-bit integers the arithmetic is carried out in
MaxInt == (2 ^ 30 - 1) + 2 ^ 30

\* <<q, r>> with a * b = q * c + r and 0 <= r < c, for a, b >= 0 and c > 0:
\* directly when the product fits, else by long multiplication over the base-16
\* digits of b
RECURSIVE MulDivMod(_, _, _)
MulDivMod(a, b, c) ==
    IF a = 0 \/ b = 0 THEN <<0, 0>>
    ELSE IF b <= MaxInt \div a THEN <<(a * b) \div c, (a * b) % c>>
    ELSE LET h == MulDivMod(a, b \div 16, c)
             t == 16 * h[2] + (b % 16) * (a % c)
         IN <<16 * h[1] + (b % 16) * (a \div c) + t \div c, t % c>>

\* a * b / c rounded down
MulDiv(a, b, c) == MulDivMod(a, b, c)[1]

\* a * b / c rounded to the nearest integer, ties to the even one (a, b >= 0, c > 0)
RoundHalfEven(a, b, c) ==
    LET qr == MulDivMod(a, b, c)
    IN IF 2 * qr[2] > c \/ (2 * qr[2] = c /\ qr[1] % 2 = 1) THEN qr[1] + 1 ELSE qr[1]

\* the same for a of either sign
SRoundHalfEven(a, b, c) ==
    IF a < 0 THEN -RoundHalfEven(-a, b, c) ELSE RoundHalfEven(a, b, c)

-----------------------------------------------------------------------------
(* Floats *)

Num(x) == [k |-> "num", v |-> x]
NaN  == [k |-> "nan", v |-> 0]
PInf == [k |-> "inf", v |-> 0]
NInf == [k |-> "ninf", v |-> 0]

IsNum(f) == f.k = "num"

\* Series.round(2) / round(x, 2) of a Value in thousandths
Round2(f) == IF IsNum(f) THEN Num(10 * SRoundHalfEven(f.v, 1, 10)) ELSE f

-----------------------------------------------------------------------------
(* Strings *)

Sep(c) == <<c>>

\* str(n) of an int
Str(n) == <<ToString(n)>>

\* the tokens the model's strings are made of, in a fixed order
Alphabet ==
    <<"_", "-", "All of Estonia", "Harju county", "All sectors",
      "Education", "Average monthly gross wages", "Median monthly gross wages">>
    \o [i \in 1..10 |-> ToString(2015 + i)]
    \o <<"Net monthly wages", "Tallinn">>

TokCode(t) == CHOOSE i \in 1..Len(Alphabet) : Alphabet[i] = t

\* the range of hash(): a signed machine word, here of 16 bits
HashSpan == 2 ^ 16

\* the value a string's tokens mix to, before salting
StrMix(s) == LET RECURSIVE go(_)
                 go(i) == IF i = 0 THEN 0 ELSE (31 * go(i - 1) + TokCode(s[i])) % HashSpan
             IN go(Len(s))

\* a generator whose noise came from a stateful random source instead
hash_stateful(s) ==
    ((7919 * (hashSeed + gen_calls) + 257 * StrMix(s)) % HashSpan) - HashSpan \div 2

\* hash(s) of a str: salted per process, the same for equal strings within one
\* process, of either sign
hash(s) == ((7919 * hashSeed + 257 * StrMix(s)) % HashSpan) - HashSpan \div 2

-----------------------------------------------------------------------------
(* DataFrames *)

\* a sequence's elements, evaluated once
List(s) == s \o <<>>

DataFrame(cols, rows) == [columns |-> List(cols), rows |-> List(rows)]

BaseColumns == <<"Year", "Value">>

BaseRow(y, v) == ("Year" :> y) @@ ("Value" :> v)

\* df[col].tolist()
Column(df, col) == List([i \in 1..Len(df.rows) |-> df.rows[i][col]])

SeqToSet(s) == {s[i] : i \in 1..Len(s)}

HasColumn(df, col) == col \in SeqToSet(df.columns)

-----------------------------------------------------------------------------
(* StatEstoniaAPI.get_mock_salary_data *)

\* dict.get(key, default)
Get(d, key, default) == IF key \in DOMAIN d THEN d[key] ELSE default

sector_base ==
    (<<"All sectors">> :> 1200)
    @@ (<<"Information and communication">> :> 2200)
    @@ (<<"Finance and insurance">> :> 1900)
    @@ (<<"Professional, scientific and technical activities">> :> 1700)
    @@ (<<"Manufacturing">> :> 1300)
    @@ (<<"Construction">> :> 1400)
    @@ (<<"Wholesale and retail trade">> :> 1100)
    @@ (<<"Transportation and storage">> :> 1250)
    @@ (<<"Accommodation and food service">> :> 950)
    @@ (<<"Education">> :> 1150)
    @@ (<<"Healthcare">> :> 1350)

\* percent, in tenths: 7.2 is 72
sector_growth ==
    (<<"All sectors">> :> 50)
    @@ (<<"Information and communication">> :> 72)
    @@ (<<"Finance and insurance">> :> 65)
    @@ (<<"Professional, scientific and technical activities">> :> 60)
    @@ (<<"Manufacturing">> :> 45)
    @@ (<<"Construction">> :> 48)
    @@ (<<"Wholesale and retail trade">> :> 42)
    @@ (<<"Transportation and storage">> :> 45)
    @@ (<<"Accommodation and food service">> :> 38)
    @@ (<<"Education">> :> 40)
    @@ (<<"Healthcare">> :> 52)

\* in hundredths: 1.15 is 115
region_factor ==
    (<<"All of Estonia">> :> 100)
    @@ (<<"Harju county">> :> 115)
    @@ (<<"Tartu county">> :> 95)
    @@ (<<"Ida", "-", "Viru county">> :> 85)
    @@ (<<"Pärnu county">> :> 90)
    @@ (<<"Lääne", "-", "Viru county">> :> 88)
    @@ (<<"Viljandi county">> :> 87)
    @@ (<<"Rapla county">> :> 89)
    @@ (<<"Võru county">> :> 86)
    @@ (<<"Saare county">> :> 88)
    @@ (<<"Jõgeva county">> :> 85)
    @@ (<<"Järva county">> :> 87)
    @@ (<<"Valga county">> :> 84)
    @@ (<<"Põlva county">> :> 83)
    @@ (<<"Lääne county">> :> 86)
    @@ (<<"Hiiu county">> :> 85)

\* <<numerator, denominator>>: 0.85/168 is <<85, 16800>>
data_type_factor ==
    (<<"Average monthly gross wages">> :> <<1, 1>>)
    @@ (<<"Median monthly gross wages">> :> <<85, 100>>)
    @@ (<<"Average hourly gross wages">> :> <<1, 168>>)
    @@ (<<"Median hourly gross wages">> :> <<85, 16800>>)

\* list(range(a, b)): the last year left out
Range_exclusive(a, b) == [i \in 1..(IF b > a THEN b - a ELSE 0) |-> a + i - 1]

\* list(range(a, b + 1))
Range(a, b) == [i \in 1..(IF b >= a THEN b - a + 1 ELSE 0) |-> a + i - 1]

\* v * (1 + growth_rate) * i: a product where the power is
Compound_linear(v, growth, i) == MulDiv(v, (1000 + growth) * i, 1000)

\* v * (1 + growth_rate) ** i, growth in tenths of a percent
RECURSIVE Compound(_, _, _)
Compound(v, growth, i) ==
    IF i = 0 THEN v ELSE MulDiv(Compound(v, growth, i - 1), 1000 + growth, 1000)

\* 0.98 + 0.04 * (h % 1000) / 1000 as <<numerator, denominator>>; % is Python's,
\* whose result has the sign of the divisor
variation(h) == <<24500 + (h % 1000), 25000>>

\* the same where an unknown sector makes the region's multiplier the default too
Lookups_shared(region, sector, data_type) ==
    [base_value |-> Get(sector_base, sector, 1200),
     growth_rate |-> Get(sector_growth, sector, 50),
     region_multiplier |-> IF sector \in DOMAIN sector_base
                           THEN Get(region_factor, region, 100) ELSE 100,
     data_type_multiplier |-> Get(data_type_factor, data_type, <<1, 1>>)]

\* the four lookups, each with its default: base, growth (tenths of a percent),
\* region multiplier (hundredths), data type multiplier
Lookups(region, sector, data_type) ==
    [base_value |-> Get(sector_base, sector, 1200),
     growth_rate |-> Get(sector_growth, sector, 50),
     region_multiplier |-> Get(region_factor, region, 100),
     data_type_multiplier |-> Get(data_type_factor, data_type, <<1, 1>>)]

\* the least i at which (1 + growth_rate) ** i exceeds the largest float (about
\* 1.8 * 10^308), where Python's float power raises OverflowError
power_limit ==
    (38 :> 19032) @@ (40 :> 18098) @@ (42 :> 17253) @@ (45 :> 16126)
    @@ (48 :> 15140) @@ (50 :> 14548) @@ (52 :> 14002) @@ (60 :> 12182)
    @@ (65 :> 11271) @@ (72 :> 10209)

\* what the loop raises: the last i is end_year - start_year
Raised(sector, start_year, end_year) ==
    IF end_year - start_year >= power_limit[Get(sector_growth, sector, 50)]
    THEN "OverflowError" ELSE "none"

\* hash(f"{region}-{sector}-{year}")
noise_hash(region, sector, year) ==
    hash(region \o Sep("-") \o sector \o Sep("-") \o Str(year))

\* the same with the data type in the hashed string
perturbation_by_type(region, sector, data_type, year) ==
    variation(hash(region \o Sep("-") \o sector \o Sep("-") \o data_type
                   \o Sep("-") \o Str(year)))

\* the random variation of one year
perturbation(region, sector, data_type, year) ==
    variation(noise_hash(region, sector, year))

\* one year's salary: the body of the loop. Computed in units of 10^-5 and
\* rounded to 2 decimals at the end; the result is a Value (thousandths)
salary(region, sector, data_type, i, year) ==
    LET p == Lookups(region, sector, data_type)
        compound == Compound(p.base_value * 100000, p.growth_rate, i)
        adjusted == MulDiv(MulDiv(compound, p.region_multiplier, 100),
                           p.data_type_multiplier[1], p.data_type_multiplier[2])
        var == perturbation(region, sector, data_type, year)
        value == MulDiv(adjusted, var[1], var[2])
    IN Num(10 * RoundHalfEven(value, 1, 1000))

\* the frame returned, when nothing is raised
get_mock_salary_data(region, sector, start_year, end_year, data_type) ==
    LET years == Range(start_year, end_year)
    IN DataFrame(BaseColumns,
                 [i \in 1..Len(years) |->
                     BaseRow(years[i], salary(region, sector, data_type, i - 1, years[i]))])

-----------------------------------------------------------------------------
(* Column arithmetic of the metrics operations *)

\* an exact quotient n / d (d # 0), kept until it is rounded
Frac(n, d) == [k |-> "frac", n |-> n, d |-> d]

\* (cur / prev - 1) * 100 in float arithmetic: a division by zero gives an
\* infinity, 0/0 and any operand that is no number give nan
PctOver(prev, cur) ==
    IF ~IsNum(prev) \/ ~IsNum(cur) THEN NaN
    ELSE IF prev.v = 0
         THEN (IF cur.v > 0 THEN PInf ELSE IF cur.v < 0 THEN NInf ELSE NaN)
         ELSE Frac(cur.v - prev.v, prev.v)

\* the change since the first entry where it is since the previous one
pct_change_100_base(values) ==
    [i \in 1..Len(values) |-> IF i = 1 THEN NaN ELSE PctOver(values[1], values[i])]

\* Series.pct_change() * 100: the first entry has no predecessor
pct_change_100(values) ==
    [i \in 1..Len(values) |-> IF i = 1 THEN NaN ELSE PctOver(values[i - 1], values[i])]

\* Series.fillna(0)
fillna0(cells) == [i \in 1..Len(cells) |-> IF cells[i].k = "nan" THEN Num(0) ELSE cells[i]]

\* Series.round(2) of a percentage: hundredths of a percent
RoundPct(f) ==
    IF f.k = "frac"
    THEN Num((IF (f.n < 0) # (f.d < 0) THEN -1 ELSE 1)
             * RoundHalfEven(Abs(f.n), 10000, Abs(f.d)))
    ELSE f

round2pct(cells) == [i \in 1..Len(cells) |-> RoundPct(cells[i])]

\* df[col] = cells: replaces the column, or appends it as the last one
SetColumn(df, col, cells) ==
    DataFrame(IF HasColumn(df, col) THEN df.columns ELSE Append(df.columns, col),
              [i \in 1..Len(df.rows) |-> (col :> cells[i]) @@ df.rows[i]])

\* df.rename(columns={old: new}): a new frame
Rename(df, old, new) ==
    DataFrame([i \in 1..Len(df.columns) |->
                  IF df.columns[i] = old THEN new ELSE df.columns[i]],
              [i \in 1..Len(df.rows) |->
                  [c \in ((DOMAIN df.rows[i]) \ {old}) \cup
                         (IF old \in DOMAIN df.rows[i] THEN {new} ELSE {}) |->
                      IF c = new /\ old \in DOMAIN df.rows[i]
                      THEN df.rows[i][old] ELSE df.rows[i][c]]])

-----------------------------------------------------------------------------
(* DataProcessor.calculate_growth_rates *)

\* the same without the copy: the column is added to the caller's frame
calculate_growth_rates_inplace(df) ==
    LET result_df == SetColumn(df, "Growth Rate (%)",
                        round2pct(fillna0(pct_change_100(Column(df, "Value")))))
    IN [df |-> result_df, ret |-> result_df, exc |-> "none"]

\* the same without fillna(0)
calculate_growth_rates_nofill(df) ==
    [df |-> df, exc |-> "none",
     ret |-> SetColumn(df, "Growth Rate (%)",
                 round2pct(pct_change_100(Column(df, "Value"))))]

\* the same with the first row, which has no growth, dropped
calculate_growth_rates_dropfirst(df) ==
    LET full == SetColumn(df, "Growth Rate (%)",
                    round2pct(fillna0(pct_change_100(Column(df, "Value")))))
    IN [df |-> df, exc |-> "none",
        ret |-> DataFrame(full.columns, SubSeq(full.rows, 2, Len(full.rows)))]

calculate_growth_rates(df) ==
    LET result_df == df   \* df.copy()
        pct == pct_change_100(Column(result_df, "Value"))
        filled == fillna0(pct)
        rounded == round2pct(filled)
    IN [df |-> df, ret |-> SetColumn(result_df, "Growth Rate (%)", rounded), exc |-> "none"]

-----------------------------------------------------------------------------
(* DataProcessor.forecast_salary_trend *)

\* one, in the unit of a growth factor: millionths
One == 10 ^ 6

Sign(x) == IF x < 0 THEN -1 ELSE 1

\* a * g for factors a, g >= 0 in millionths; a product beyond the integers'
\* range, which no input of the model gives, is held at MaxInt
TimesFactor(a, g) ==
    IF g > 0 /\ a \div One + 1 > MaxInt \div g THEN MaxInt ELSE MulDiv(a, g, One)

\* g ** n for a factor g >= 0 in millionths
RECURSIVE PowFactor(_, _)
PowFactor(g, n) == IF n = 0 THEN One ELSE TimesFactor(PowFactor(g, n - 1), g)

\* r ** (1 / n) for a factor r >= 0 and n >= 1: the largest g with g ** n <= r,
\* by bisection, within the bracket around Newton's iterate where that is one
Root(r, n) ==
    LET RECURSIVE newton(_)
        RECURSIVE search(_, _)
        newton(g) ==
            LET p == PowFactor(g, n - 1)
                nxt == IF p = 0 THEN g ELSE ((n - 1) * g + MulDiv(r, One, p)) \div n
            IN IF nxt < g THEN newton(nxt) ELSE g
        search(lo, hi) ==
            IF hi - lo <= 1 THEN lo
            ELSE LET mid == (lo + hi) \div 2
                 IN IF PowFactor(mid, n) <= r THEN search(mid, hi) ELSE search(lo, mid)
        bracket(g) ==
            IF PowFactor(IF g > 2 THEN g - 2 ELSE 0, n) <= r /\ PowFactor(g + 2, n) > r
            THEN search(IF g > 2 THEN g - 2 ELSE 0, g + 2)
            ELSE search(0, (IF r > One THEN One + (r - One) \div n + 1 ELSE One) + 1)
    IN IF n = 1 THEN r
       ELSE bracket(newton(IF r > One THEN One + (r - One) \div n + 1 ELSE One))

\* (end_value / start_value) ** (1 / num_years) in numpy's float arithmetic, as a
\* factor in millionths: a division by zero gives an infinity or nan and raises
\* nothing, a negative base under a fractional exponent gives nan
RECURSIVE GrowthFactor(_, _, _)
GrowthFactor(start_value, end_value, num_years) ==
    IF num_years < 0 THEN GrowthFactor(end_value, start_value, -num_years)
    ELSE IF num_years = 0
    THEN (IF start_value = 0
          THEN (IF end_value = 0 THEN NaN ELSE PInf)
          ELSE IF Abs(end_value) > Abs(start_value) THEN PInf
          ELSE IF Abs(end_value) = Abs(start_value) THEN Num(One)
          ELSE Num(0))
    ELSE IF start_value = 0
    THEN (IF end_value = 0 THEN NaN
          ELSE IF end_value < 0 /\ num_years = 1 THEN NInf ELSE PInf)
    ELSE IF Sign(start_value) # Sign(end_value) /\ end_value # 0
    THEN (IF num_years = 1
          THEN Num(-RoundHalfEven(Abs(end_value), One, Abs(start_value)))
          ELSE NaN)
    ELSE Num(Root(RoundHalfEven(Abs(end_value), One, Abs(start_value)), num_years))

\* factor ** i for i >= 1
FactorPow(factor, i) ==
    IF factor.k = "num"
    THEN Num((IF factor.v < 0 /\ i % 2 = 1 THEN -1 ELSE 1) * PowFactor(Abs(factor.v), i))
    ELSE IF factor.k = "ninf" /\ i % 2 = 0 THEN PInf
    ELSE factor

\* last_value * power: a Value (thousandths) times a factor (millionths)
Times(last_value, power) ==
    IF ~IsNum(last_value) \/ power.k = "nan" THEN NaN
    ELSE IF power.k = "num"
    THEN Num(Sign(last_value.v) * Sign(power.v)
             * MulDiv(Abs(last_value.v), Abs(power.v), One))
    ELSE IF last_value.v = 0 THEN NaN
    ELSE IF (last_value.v > 0) = (power.k = "inf") THEN PInf ELSE NInf

\* pd.concat([historical_df, forecast_df], ignore_index=True): the columns of the
\* first frame, then those only the second has; a cell a frame lacks is nan
Concat(a, b) ==
    LET cols == a.columns \o SelectSeq(b.columns, LAMBDA c : ~HasColumn(a, c))
        fill(row) == [c \in SeqToSet(cols) |-> IF c \in DOMAIN row THEN row[c] ELSE NaN]
    IN DataFrame(cols, [i \in 1..Len(a.rows) |-> fill(a.rows[i])]
                       \o [i \in 1..Len(b.rows) |-> fill(b.rows[i])])

\* the Value column left as it is
KeepValues(df) == df

\* df['Value'].round(2)
RoundValues(df) ==
    SetColumn(df, "Value", [i \in 1..Len(df.rows) |-> Round2(df.rows[i]["Value"])])

\* a forecast that starts at the last year itself
ForecastRow_overlap(y, v) == ("Year" :> y - 1) @@ ("Value" :> v) @@ ("Type" :> "Forecast")

ForecastRow(y, v) == ("Year" :> y) @@ ("Value" :> v) @@ ("Type" :> "Forecast")

\* the same extrapolating from the first value of the series
ForecastResult_fromfirst(df, cagr1, forecast_years) ==
    LET years == Column(df, "Year")
        values == Column(df, "Value")
        last_year == years[Len(years)]
        forecast_years_list == Range(last_year + 1, last_year + forecast_years)
        last_value == values[1]
        forecast_values ==
            [i \in 1..(IF forecast_years > 0 THEN forecast_years ELSE 0) |->
                Times(last_value, FactorPow(cagr1, i))]
        forecast_df ==
            DataFrame(<<"Year", "Value", "Type">>,
                      [i \in 1..Len(forecast_years_list) |->
                          ForecastRow(forecast_years_list[i], forecast_values[i])])
        historical_df ==
            SetColumn(df, "Type", [i \in 1..Len(df.rows) |-> "Historical"])
    IN RoundValues(Concat(historical_df, forecast_df))

\* the forecast frame and the tagged copy of the input, concatenated and rounded
ForecastResult(df, cagr1, forecast_years) ==
    LET years == Column(df, "Year")
        values == Column(df, "Value")
        last_year == years[Len(years)]
        forecast_years_list == Range(last_year + 1, last_year + forecast_years)
        last_value == values[Len(values)]
        forecast_values ==
            [i \in 1..(IF forecast_years > 0 THEN forecast_years ELSE 0) |->
                Times(last_value, FactorPow(cagr1, i))]
        forecast_df ==
            DataFrame(<<"Year", "Value", "Type">>,
                      [i \in 1..Len(forecast_years_list) |->
                          ForecastRow(forecast_years_list[i], forecast_values[i])])
        historical_df ==
            SetColumn(df, "Type", [i \in 1..Len(df.rows) |-> "Historical"])
    IN RoundValues(Concat(historical_df, forecast_df))

\* 1 + cagr, in millionths: the compound annual growth rate of the series, or
\* the default of 5 % for a series of fewer than two rows
Cagr1(df) ==
    LET years == Column(df, "Year")
        values == Column(df, "Value")
    IN IF Len(years) >= 2
       THEN GrowthFactor(values[1].v, values[Len(values)].v, years[Len(years)] - years[1])
       ELSE Num(One + 50000)

\* the same producing one forecast row too many (range end off by one)
forecast_salary_trend_extra(df, forecast_years) ==
    IF Len(df.rows) = 0
    THEN [df |-> df, ret |-> DataFrame(<<>>, <<>>), exc |-> "IndexError"]
    ELSE [df |-> df, ret |-> ForecastResult(df, Cagr1(df), forecast_years + 1),
          exc |-> "none"]

\* the same with the default rate mistyped as 0.5
forecast_salary_trend_rate(df, forecast_years) ==
    IF Len(df.rows) = 0
    THEN [df |-> df, ret |-> DataFrame(<<>>, <<>>), exc |-> "IndexError"]
    ELSE [df |-> df, exc |-> "none",
          ret |-> ForecastResult(df, IF Len(df.rows) >= 2 THEN Cagr1(df)
                                     ELSE Num(One + 500000), forecast_years)]

\* the same returning the empty input as the table when there is nothing to
\* forecast from
forecast_salary_trend_lenient(df, forecast_years) ==
    IF Len(df.rows) = 0
    THEN [df |-> df, ret |-> df, exc |-> "none"]
    ELSE [df |-> df, ret |-> ForecastResult(df, Cagr1(df), forecast_years),
          exc |-> "none"]

\* years[-1] of an empty frame raises IndexError; nothing else raises
forecast_salary_trend(df, forecast_years) ==
    IF Len(df.rows) = 0
    THEN [df |-> df, ret |-> DataFrame(<<>>, <<>>), exc |-> "IndexError"]
    ELSE [df |-> df, ret |-> ForecastResult(df, Cagr1(df), forecast_years),
          exc |-> "none"]

-----------------------------------------------------------------------------
(* DataProcessor.get_salary_data *)

\* f"{region}_{sector}_{start_year}_{end_year}_{data_type}"
CacheKey(region, sector, start_year, end_year, data_type) ==
    region \o Sep("_") \o sector \o Sep("_") \o Str(start_year) \o Sep("_")
           \o Str(end_year) \o Sep("_") \o data_type

\* return df, with nothing stored
Store_uncached(cache, cache_key, q, df) ==
    [cache |-> cache, key |-> cache_key, ret |-> df,
     gen |-> <<[q |-> q, df |-> df, exc |-> "none"]>>, exc |-> "none"]

\* self.data_cache[cache_key] = df; return df
Store(cache, cache_key, q, df) ==
    [cache |-> (cache_key :> df) @@ cache, key |-> cache_key, ret |-> df,
     gen |-> <<[q |-> q, df |-> df, exc |-> "none"]>>, exc |-> "none"]

\* return self.data_cache[cache_key]
Hit(cache, cache_key) ==
    [cache |-> cache, key |-> cache_key, ret |-> cache[cache_key], gen |-> <<>>,
     exc |-> "none"]

\* the generator raised: print(...); raise. Nothing is stored, the exception
\* leaves as it is
Reraise(cache, cache_key, q, exc) ==
    [cache |-> cache, key |-> cache_key, ret |-> DataFrame(<<>>, <<>>),
     gen |-> <<[q |-> q, df |-> DataFrame(<<>>, <<>>), exc |-> exc]>>, exc |-> exc]

\* the generator's frame stored, or its exception passed on
Fetched(cache, cache_key, region, sector, start_year, end_year, data_type) ==
    IF Raised(sector, start_year, end_year) # "none"
    THEN Reraise(cache, cache_key, <<region, sector, start_year, end_year, data_type>>,
                 Raised(sector, start_year, end_year))
    ELSE Store(cache, cache_key, <<region, sector, start_year, end_year, data_type>>,
               get_mock_salary_data(region, sector, start_year, end_year, data_type))

\* the same fetching and storing even when the key is already cached
get_salary_data_overwrite(cache, region, sector, start_year, end_year, data_type) ==
    Store(cache, CacheKey(region, sector, start_year, end_year, data_type),
          <<region, sector, start_year, end_year, data_type>>,
          get_mock_salary_data(region, sector, start_year, end_year, data_type))

\* the same keeping only the entry stored last: a cache of one entry
get_salary_data_evict(cache, region, sector, start_year, end_year, data_type) ==
    IF CacheKey(region, sector, start_year, end_year, data_type) \in DOMAIN cache
    THEN Hit(cache, CacheKey(region, sector, start_year, end_year, data_type))
    ELSE Store(<<>>, CacheKey(region, sector, start_year, end_year, data_type),
               <<region, sector, start_year, end_year, data_type>>,
               get_mock_salary_data(region, sector, start_year, end_year, data_type))

\* the same answering a generator that raised with an empty frame
get_salary_data_swallow(cache, region, sector, start_year, end_year, data_type) ==
    IF CacheKey(region, sector, start_year, end_year, data_type) \in DOMAIN cache
    THEN Hit(cache, CacheKey(region, sector, start_year, end_year, data_type))
    ELSE [Fetched(cache, CacheKey(region, sector, start_year, end_year, data_type),
                  region, sector, start_year, end_year, data_type)
             EXCEPT !.exc = "none"]

\* cache: data_cache before the call. Returns data_cache after it, the key, the
\* frame returned (the object the cache holds) and the generator calls made.
\* What get_mock_salary_data raises is caught, printed and raised again.
get_salary_data(cache, region, sector, start_year, end_year, data_type) ==
    IF CacheKey(region, sector, start_year, end_year, data_type) \in DOMAIN cache
    THEN Hit(cache, CacheKey(region, sector, start_year, end_year, data_type))
    ELSE Fetched(cache, CacheKey(region, sector, start_year, end_year, data_type),
                 region, sector, start_year, end_year, data_type)

-----------------------------------------------------------------------------
(* DataProcessor.compare_with_national_average *)

AllOfEstonia == <<"All of Estonia">>
AllSectors == <<"All sectors">>

SeqMin(s) == CHOOSE x \in SeqToSet(s) : \A y \in SeqToSet(s) : x <= y
\* the first element where the greatest is
SeqMax_first(s) == s[1]

SeqMax(s) == CHOOSE x \in SeqToSet(s) : \A y \in SeqToSet(s) : x >= y

\* pd.merge(left, right, on=col): inner join, in the order of the left keys
Merge(left, right, col) ==
    LET RECURSIVE rowsFrom(_)
        matches(l) ==
            LET js == SelectSeq([j \in 1..Len(right.rows) |-> j],
                                LAMBDA j : right.rows[j][col] = l[col])
            IN [n \in 1..Len(js) |-> l @@ right.rows[js[n]]]
        rowsFrom(i) ==
            IF i > Len(left.rows) THEN <<>>
            ELSE matches(left.rows[i]) \o rowsFrom(i + 1)
    IN DataFrame(left.columns \o SelectSeq(right.columns, LAMBDA c : c # col),
                 rowsFrom(1))

\* the merged frame with its 'Difference (%)' column
Comparison(df, national_df) ==
    LET comparison_df == Merge(Rename(df, "Value", "Selected"),
                               Rename(national_df, "Value", "National Average"),
                               "Year")
        difference ==
            [i \in 1..Len(comparison_df.rows) |->
                PctOver(comparison_df.rows[i]["National Average"],
                        comparison_df.rows[i]["Selected"])]
    IN SetColumn(comparison_df, "Difference (%)", round2pct(difference))

\* the result once the national frame is fetched
Compared(df, national) ==
    [cache |-> national.cache, df |-> df,
     ret |-> IF national.exc # "none" THEN DataFrame(<<>>, <<>>)
             ELSE Comparison(df, national.ret),
     gen |-> national.gen, exc |-> national.exc, alias |-> FALSE]

\* the same without the early return for the baseline itself: the whole country's
\* all-sectors series is fetched and merged like any other
compare_with_national_average_nobaseline(cache, df, region, sector, data_type) ==
    IF Len(df.rows) = 0
    THEN [cache |-> cache, df |-> df, ret |-> DataFrame(<<>>, <<>>), gen |-> <<>>,
          exc |-> "ValueError", alias |-> FALSE]
    ELSE Compared(df,
                  get_salary_data(cache, AllOfEstonia,
                                  IF region = AllOfEstonia THEN AllSectors ELSE sector,
                                  SeqMin(Column(df, "Year")), SeqMax(Column(df, "Year")),
                                  data_type))

\* the same comparing a sector of the whole country with that sector of the whole
\* country, where all sectors are meant
compare_with_national_average_samesector(cache, df, region, sector, data_type) ==
    IF Len(df.rows) = 0
    THEN [cache |-> cache, df |-> df, ret |-> DataFrame(<<>>, <<>>), gen |-> <<>>,
          exc |-> "ValueError", alias |-> FALSE]
    ELSE IF region = AllOfEstonia /\ sector = AllSectors
    THEN [cache |-> cache, df |-> df, ret |-> df, gen |-> <<>>, exc |-> "none",
          alias |-> TRUE]
    ELSE Compared(df,
                  get_salary_data(cache, AllOfEstonia, sector,
                                  SeqMin(Column(df, "Year")), SeqMax(Column(df, "Year")),
                                  data_type))

\* min(years) of an empty frame raises ValueError, before anything else is done.
\* alias: the frame returned is the caller's own object, df
compare_with_national_average(cache, df, region, sector, data_type) ==
    IF Len(df.rows) = 0
    THEN [cache |-> cache, df |-> df, ret |-> DataFrame(<<>>, <<>>), gen |-> <<>>,
          exc |-> "ValueError", alias |-> FALSE]
    ELSE IF region = AllOfEstonia /\ sector = AllSectors
    THEN [cache |-> cache, df |-> df, ret |-> df, gen |-> <<>>, exc |-> "none",
          alias |-> TRUE]
    ELSE Compared(df,
                  get_salary_data(cache, AllOfEstonia,
                                  IF region = AllOfEstonia THEN AllSectors ELSE sector,
                                  SeqMin(Column(df, "Year")), SeqMax(Column(df, "Year")),
                                  data_type))

-----------------------------------------------------------------------------
(* DataProcessor.prepare_data_for_export *)

\* forecast_years: int = 3
DefaultForecastYears == 3

\* the cache, where the frame it holds under key is the object df
Held(cache, key, df) ==
    IF key \in DOMAIN cache THEN [cache EXCEPT ![key] = df] ELSE cache

NoFrame == DataFrame(<<>>, <<>>)

\* the forecast made: the bundle returned, or the error that leaves
ExportForecast(base, growth, comparison, forecast) ==
    [cache |-> Held(Held(comparison.cache, base.key, comparison.df), base.key, forecast.df),
     ret |-> IF forecast.exc # "none" THEN NoFrame
             ELSE [base_data |-> forecast.df,
                   growth_rates |-> growth.ret,
                   comparison |-> IF comparison.alias THEN forecast.df
                                  ELSE comparison.ret,
                   forecast |-> forecast.ret],
     gen |-> base.gen \o comparison.gen,
     exc |-> forecast.exc]

\* the comparison made: its error leaves, or the forecast follows
ExportComparison(base, growth, comparison) ==
    IF comparison.exc # "none"
    THEN [cache |-> Held(comparison.cache, base.key, comparison.df), ret |-> NoFrame,
          gen |-> base.gen \o comparison.gen, exc |-> comparison.exc]
    ELSE ExportForecast(base, growth, comparison,
                        forecast_salary_trend(comparison.df, DefaultForecastYears))

\* the growth rates made: the comparison follows
ExportGrowth(base, growth, region, sector, data_type) ==
    ExportComparison(base, growth,
                     compare_with_national_average(
                         Held(base.cache, base.key, growth.df), growth.df,
                         region, sector, data_type))

\* base_df fetched, and the growth rates follow, or get_salary_data's error leaves
ExportBase(base, region, sector, data_type) ==
    IF base.exc # "none" THEN base
    ELSE ExportGrowth(base, calculate_growth_rates(base.ret), region, sector, data_type)

\* base_df is the object data_cache holds under the key: what an operation does
\* to the frame it is passed (df) is done to the frame the next one is passed,
\* shows in the cache and in the bundle
prepare_data_for_export(cache, region, sector, start_year, end_year, data_type) ==
    ExportBase(get_salary_data(cache, region, sector, start_year, end_year, data_type),
               region, sector, data_type)

-----------------------------------------------------------------------------
(* DataProcessor.prepare_data_for_ai_analysis *)

\* round(Series.mean(), 2) of percentages that are all numbers, as those derived
\* from a generated series are
RoundMean(cells) ==
    IF \A i \in 1..Len(cells) : IsNum(cells[i])
    THEN Num(SRoundHalfEven(SeqSum([i \in 1..Len(cells) |-> cells[i].v]), 1, Len(cells)))
    ELSE NaN

\* the same listing every row of the forecast table, the historical ones too
Digest_unfiltered(bundle, region, sector, start_year, end_year, data_type) ==
    LET n == Len(bundle.base_data.rows)
        forecast_rows == bundle.forecast.rows
    IN [region |-> region,
        sector |-> sector,
        data_type |-> data_type,
        time_period |-> Str(start_year) \o Sep("-") \o Str(end_year),
        years |-> Column(bundle.base_data, "Year"),
        values |-> Column(bundle.base_data, "Value"),
        growth_rates |-> Column(bundle.growth_rates, "Growth Rate (%)"),
        avg_growth_rate |-> RoundMean(Column(bundle.growth_rates, "Growth Rate (%)")),
        latest_value |-> bundle.base_data.rows[n]["Value"],
        latest_yoy_change |->
            IF n > 1
            THEN RoundPct(PctOver(bundle.base_data.rows[n - 1]["Value"],
                                  bundle.base_data.rows[n]["Value"]))
            ELSE Num(0),
        avg_diff_from_national |->
            IF HasColumn(bundle.comparison, "Difference (%)")
            THEN RoundMean(Column(bundle.comparison, "Difference (%)"))
            ELSE Num(0),
        forecast_years |-> [i \in 1..Len(forecast_rows) |-> forecast_rows[i]["Year"]],
        forecast_values |-> [i \in 1..Len(forecast_rows) |-> forecast_rows[i]["Value"]]]

\* ai_data, from the bundle
Digest(bundle, region, sector, start_year, end_year, data_type) ==
    LET n == Len(bundle.base_data.rows)
        forecast_rows == SelectSeq(bundle.forecast.rows, LAMBDA r : r["Type"] = "Forecast")
    IN [region |-> region,
        sector |-> sector,
        data_type |-> data_type,
        time_period |-> Str(start_year) \o Sep("-") \o Str(end_year),
        years |-> Column(bundle.base_data, "Year"),
        values |-> Column(bundle.base_data, "Value"),
        growth_rates |-> Column(bundle.growth_rates, "Growth Rate (%)"),
        avg_growth_rate |-> RoundMean(Column(bundle.growth_rates, "Growth Rate (%)")),
        latest_value |-> bundle.base_data.rows[n]["Value"],
        latest_yoy_change |->
            IF n > 1
            THEN RoundPct(PctOver(bundle.base_data.rows[n - 1]["Value"],
                                  bundle.base_data.rows[n]["Value"]))
            ELSE Num(0),
        avg_diff_from_national |->
            IF HasColumn(bundle.comparison, "Difference (%)")
            THEN RoundMean(Column(bundle.comparison, "Difference (%)"))
            ELSE Num(0),
        forecast_years |-> [i \in 1..Len(forecast_rows) |-> forecast_rows[i]["Year"]],
        forecast_values |-> [i \in 1..Len(forecast_rows) |-> forecast_rows[i]["Value"]]]

\* the bundle made: its error leaves, or the digest is returned
DigestOf(data_dict, region, sector, start_year, end_year, data_type) ==
    IF data_dict.exc # "none" THEN data_dict
    ELSE [data_dict EXCEPT
             !.ret = Digest(data_dict.ret, region, sector, start_year, end_year, data_type)]

prepare_data_for_ai_analysis(cache, region, sector, start_year, end_year, data_type) ==
    DigestOf(prepare_data_for_export(cache, region, sector, start_year, end_year,
                                     data_type),
             region, sector, start_year, end_year, data_type)

-----------------------------------------------------------------------------
(* Inputs *)

HarjuCounty == <<"Harju county">>
Education == <<"Education">>
\* names no table holds, with an underscore in them
HarjuEducation == <<"Harju county", "_", "Education">>
EducationEducation == <<"Education", "_", "Education">>
AverageMonthly == <<"Average monthly gross wages">>
MedianMonthly == <<"Median monthly gross wages">>

\* the queries (region, sector, start_year, end_year, data_type) the callers make:
\* the baseline itself, a county, a sector of the whole country, two queries that
\* differ in where the underscore falls, one year, an empty range, three years
Queries ==
    { <<AllOfEstonia, AllSectors, 2020, 2021, AverageMonthly>>,
      <<HarjuCounty, Education, 2020, 2021, AverageMonthly>>,
      <<AllOfEstonia, Education, 2020, 2021, AverageMonthly>>,
      <<HarjuEducation, Education, 2020, 2021, AverageMonthly>>,
      <<HarjuCounty, EducationEducation, 2020, 2021, AverageMonthly>>,
      <<HarjuCounty, Education, 2020, 2020, AverageMonthly>>,
      <<HarjuCounty, Education, 2021, 2020, AverageMonthly>>,
      <<HarjuCounty, Education, 2020, 2022, MedianMonthly>> }

\* a data type no table holds
NetMonthly == <<"Net monthly wages">>

\* a range of 20000 years, whose compound growth no float holds
FarYear == 22020

\* the queries made of the generator directly: those above, an unknown data type
\* alone, a known region with an unknown sector and data type, and the far range
GenQueries ==
    Queries \cup
    { <<HarjuCounty, Education, 2020, 2021, NetMonthly>>,
      <<HarjuCounty, EducationEducation, 2020, 2021, NetMonthly>>,
      <<HarjuCounty, Education, 2020, FarYear, AverageMonthly>> }

\* the queries a digest is asked for
DigestQueries ==
    { <<HarjuCounty, Education, 2020, 2021, AverageMonthly>>,
      <<HarjuCounty, Education, 2020, 2022, MedianMonthly>> }

\* the queries whose frames a caller passes on to a metrics operation
MetricQueries ==
    { <<HarjuCounty, Education, 2020, 2021, AverageMonthly>>,
      <<HarjuCounty, Education, 2020, 2020, AverageMonthly>>,
      <<HarjuCounty, Education, 2021, 2020, AverageMonthly>>,
      <<HarjuCounty, Education, 2020, 2022, MedianMonthly>> }

\* the (region, sector, data_type) a caller's own frame is compared under
Comparisons ==
    { <<AllOfEstonia, AllSectors, AverageMonthly>>,
      <<HarjuCounty, Education, AverageMonthly>>,
      <<AllOfEstonia, Education, AverageMonthly>> }

\* the frames a caller passes directly to a metrics operation: up to MaxLen rows,
\* years in any order, values with more than 2 decimals, zero among them
FrameYears == {2020, 2021}
FrameValues == {0, 1000000, 1000004, 1050000}

FrameRows == {BaseRow(y, Num(v)) : y \in FrameYears, v \in FrameValues}

InputFrames ==
    {DataFrame(BaseColumns, rows) :
        rows \in UNION {[1..n -> FrameRows] : n \in 0..MaxLen}}

-----------------------------------------------------------------------------
(* The state machine *)

\* the callers that run get_salary_data at the same time
Callers == {1, 2}

\* a caller outside get_salary_data, before its first call
Idle == [pc |-> "idle", q |-> <<>>, key |-> <<>>, df |-> NoFrame, ret |-> NoFrame,
         exc |-> "none"]

NoCall == [op |-> "none", q |-> <<>>, exc |-> "none", gen |-> <<>>, repeat |-> FALSE]

\* the instrumentation's record of the first frame the generator returned for each
\* query
RECURSIVE RecordGen(_, _)
RecordGen(g, gen) ==
    IF gen = <<>> THEN g
    ELSE RecordGen(IF Head(gen).q \in DOMAIN g \/ Head(gen).exc # "none" THEN g
                   ELSE (Head(gen).q :> Head(gen).df) @@ g,
                   Tail(gen))

\* a call of the service completes: the cache and the counters after it
Complete(r) ==
    /\ data_cache' = r.cache
    /\ gen_calls' = gen_calls + Len(r.gen)
    /\ generated' = RecordGen(generated, r.gen)
    /\ ncalls' = ncalls + 1
    /\ UNCHANGED <<hashSeed, threads>>

\* the state after construction: DataProcessor.__init__, and a caller holding no frame
Init ==
    /\ hashSeed \in 0..MaxSeed
    /\ data_cache = <<>>
    /\ gen_calls = 0
    /\ generated = <<>>
    /\ bundles = <<>>
    /\ last = NoCall
    /\ ncalls = 0
    /\ arg_df = NoFrame
    /\ arg_key = <<>>
    /\ threads = [t \in Callers |-> Idle]

\* the instrumentation's record of the random variation of each year of a call
Noise(region, sector, data_type, years) ==
    [i \in 1..Len(years) |->
        [year |-> years[i], h |-> noise_hash(region, sector, years[i]),
         factor |-> perturbation(region, sector, data_type, years[i])]]

\* what the instrumentation keeps of the generator call before this one
Prior == IF last.op = "get_mock_salary_data"
         THEN [q |-> last.q, salt |-> last.salt, noise |-> last.noise]
         ELSE [q |-> <<>>, salt |-> hashSeed, noise |-> <<>>]

\* the generator returned df or raised exc
Generated(q, df, exc, years) ==
    /\ ncalls < MaxCalls
    /\ gen_calls' = gen_calls + 1
    /\ generated' = RecordGen(generated, <<[q |-> q, df |-> df, exc |-> exc]>>)
    /\ ncalls' = ncalls + 1
    /\ last' = [op |-> "get_mock_salary_data", q |-> q, exc |-> exc, ret |-> df,
                gen |-> <<[q |-> q, df |-> df, exc |-> exc]>>,
                repeat |-> q \in DOMAIN generated,
                params |-> Lookups(q[1], q[2], q[5]),
                salt |-> hashSeed,
                noise |-> Noise(q[1], q[2], q[5], years),
                prior |-> Prior]
    /\ UNCHANGED <<hashSeed, data_cache, bundles, arg_df, arg_key, threads>>

\* stat_api.get_mock_salary_data(...) called by a caller of its own
GetMockSalaryData(q) ==
    IF Raised(q[2], q[3], q[4]) # "none"
    THEN Generated(q, NoFrame, Raised(q[2], q[3], q[4]), <<>>)
    ELSE Generated(q, get_mock_salary_data(q[1], q[2], q[3], q[4], q[5]), "none",
                   Range(q[3], q[4]))

\* the caller keeps the frame returned, and what it asked for
GetSalaryData(q) ==
    LET r == get_salary_data(data_cache, q[1], q[2], q[3], q[4], q[5])
    IN /\ ncalls < MaxCalls
       /\ Complete(r)
       /\ last' = [op |-> "get_salary_data", q |-> q, exc |-> r.exc, ret |-> r.ret,
                   gen |-> r.gen, repeat |-> r.key \in DOMAIN data_cache]
       /\ arg_df' = r.ret
       /\ arg_key' = r.key
       /\ UNCHANGED bundles

\* a metrics operation called on the frame the caller holds, arg_df: one it made
\* itself, or the one get_salary_data returned, which is the object the cache
\* holds under arg_key. r: what the operation did
Metric(op, args, r) ==
    /\ ncalls < MaxCalls
    /\ Complete([r EXCEPT !.cache = Held(r.cache, arg_key, r.df)])
    /\ last' = [op |-> op, q |-> args, exc |-> r.exc, ret |-> r.ret, gen |-> r.gen,
                repeat |-> FALSE, before |-> arg_df, df |-> r.df]
    /\ arg_df' = r.df
    /\ UNCHANGED <<bundles, arg_key>>

\* what an operation that touches no cache did, with the cache as it is
Cacheless(r) == [cache |-> data_cache, gen |-> <<>>, df |-> r.df, ret |-> r.ret,
                 exc |-> r.exc]

CalculateGrowthRates ==
    Metric("calculate_growth_rates", <<>>, Cacheless(calculate_growth_rates(arg_df)))

ForecastSalaryTrend(forecast_years) ==
    Metric("forecast_salary_trend", <<forecast_years>>,
           Cacheless(forecast_salary_trend(arg_df, forecast_years)))

CompareWithNationalAverage(region, sector, data_type) ==
    Metric("compare_with_national_average", <<region, sector, data_type>>,
           compare_with_national_average(data_cache, arg_df, region, sector, data_type))

PrepareDataForExport(q) ==
    LET r == prepare_data_for_export(data_cache, q[1], q[2], q[3], q[4], q[5])
    IN /\ ncalls < MaxCalls
       /\ Complete(r)
       /\ last' = [op |-> "prepare_data_for_export", q |-> q, exc |-> r.exc,
                   ret |-> r.ret, gen |-> r.gen, repeat |-> q \in DOMAIN bundles]
       /\ bundles' = IF r.exc = "none" /\ q \notin DOMAIN bundles
                     THEN (q :> r.ret) @@ bundles ELSE bundles
       /\ UNCHANGED <<arg_df, arg_key>>

PrepareDataForAIAnalysis(q) ==
    LET r == prepare_data_for_ai_analysis(data_cache, q[1], q[2], q[3], q[4], q[5])
    IN /\ ncalls < MaxCalls
       /\ Complete(r)
       /\ last' = [op |-> "prepare_data_for_ai_analysis", q |-> q, exc |-> r.exc,
                   ret |-> r.ret, gen |-> r.gen, repeat |-> FALSE]
       /\ UNCHANGED <<bundles, arg_df, arg_key>>

\* the process ends and the program is started again: a new salt for hash(), an
\* empty cache, no frame from the old process; the instrumentation's records stay
Restart ==
    /\ data_cache # <<>> \/ generated # <<>>
    /\ hashSeed' \in 0..MaxSeed
    /\ data_cache' = <<>>
    /\ arg_df' = NoFrame
    /\ arg_key' = <<>>
    /\ UNCHANGED <<gen_calls, generated, bundles, last, ncalls, threads>>

\* the service and its callers: any sequence of calls, one at a time; a caller
\* passes the frame it got from get_salary_data, for the query it made, on to the
\* metrics operations
Next ==
    \/ \E q \in Queries : GetSalaryData(q)
    \/ last.op = "get_salary_data" /\ CalculateGrowthRates
    \/ last.op = "get_salary_data" /\ ForecastSalaryTrend(DefaultForecastYears)
    \/ \E q \in Queries : last.op = "get_salary_data" /\ last.q = q
                          /\ CompareWithNationalAverage(q[1], q[2], q[5])
    \/ \E q \in Queries : PrepareDataForExport(q)
    \/ \E q \in DigestQueries : PrepareDataForAIAnalysis(q)

Spec == Init /\ [][Next]_vars

\* the generator called directly, between calls of the service that fill the
\* cache, in one run of the program after another
NextGen ==
    \/ \E q \in GenQueries : GetMockSalaryData(q)
    \/ \E q \in Queries : GetSalaryData(q)
    \/ Restart

SpecGen == Init /\ [][NextGen]_vars

\* the queries of callers that meet failures: one served, an empty range, on
\* whose frame the comparison fails, and two far ranges, on which the generator
\* fails
FailQueries ==
    { <<HarjuCounty, Education, 2020, 2021, AverageMonthly>>,
      <<HarjuCounty, Education, 2021, 2020, AverageMonthly>>,
      <<HarjuCounty, Education, 2020, FarYear, AverageMonthly>>,
      <<AllOfEstonia, AllSectors, 2020, FarYear, MedianMonthly>> }

\* the service called with queries that fail, and the generator called directly
\* with the same
NextFail ==
    \/ \E q \in FailQueries : GetMockSalaryData(q)
    \/ \E q \in FailQueries : GetSalaryData(q)
    \/ \E q \in FailQueries : PrepareDataForExport(q)
    \/ \E q \in FailQueries : PrepareDataForAIAnalysis(q)

SpecFail == Init /\ [][NextFail]_vars

\* get_salary_data run by several callers at once with no lock: each statement of
\* it is one step, and the steps of the callers interleave in any order

\* a caller enters with query q: cache_key = f"..."
Enter(t, q) ==
    /\ threads[t].pc \in {"idle", "done", "failed"}
    /\ ncalls < MaxCalls
    /\ ncalls' = ncalls + 1
    /\ threads' = [threads EXCEPT ![t] =
                       [pc |-> "check", q |-> q,
                        key |-> CacheKey(q[1], q[2], q[3], q[4], q[5]),
                        df |-> NoFrame, ret |-> NoFrame, exc |-> "none"]]
    /\ UNCHANGED <<hashSeed, data_cache, gen_calls, generated, bundles, last,
                   arg_df, arg_key>>

\* if cache_key in self.data_cache: return self.data_cache[cache_key]
Check(t) ==
    /\ threads[t].pc = "check"
    /\ threads' = [threads EXCEPT ![t] =
                       IF threads[t].key \in DOMAIN data_cache
                       THEN [@ EXCEPT !.pc = "done", !.ret = data_cache[threads[t].key]]
                       ELSE [@ EXCEPT !.pc = "fetch"]]
    /\ UNCHANGED <<hashSeed, data_cache, gen_calls, generated, bundles, last, ncalls,
                   arg_df, arg_key>>

\* what the generator answered caller t: a frame to store, or an error that
\* leaves get_salary_data
Answered(t, q, df, exc) ==
    /\ gen_calls' = gen_calls + 1
    /\ generated' = RecordGen(generated, <<[q |-> q, df |-> df, exc |-> exc]>>)
    /\ threads' = [threads EXCEPT ![t] =
                       IF exc # "none" THEN [@ EXCEPT !.pc = "failed", !.exc = exc]
                       ELSE [@ EXCEPT !.pc = "store", !.df = df]]
    /\ UNCHANGED <<hashSeed, data_cache, bundles, last, ncalls, arg_df, arg_key>>

\* df = self.stat_api.get_mock_salary_data(...)
Fetch(t) ==
    LET q == threads[t].q
    IN /\ threads[t].pc = "fetch"
       /\ IF Raised(q[2], q[3], q[4]) # "none"
          THEN Answered(t, q, NoFrame, Raised(q[2], q[3], q[4]))
          ELSE Answered(t, q, get_mock_salary_data(q[1], q[2], q[3], q[4], q[5]), "none")

\* self.data_cache[cache_key] = df
StoreFrame(t) ==
    /\ threads[t].pc = "store"
    /\ data_cache' = (threads[t].key :> threads[t].df) @@ data_cache
    /\ threads' = [threads EXCEPT ![t].pc = "return"]
    /\ UNCHANGED <<hashSeed, gen_calls, generated, bundles, last, ncalls, arg_df,
                   arg_key>>

\* return df
Return(t) ==
    /\ threads[t].pc = "return"
    /\ threads' = [threads EXCEPT ![t] = [@ EXCEPT !.pc = "done", !.ret = threads[t].df]]
    /\ UNCHANGED <<hashSeed, data_cache, gen_calls, generated, bundles, last, ncalls,
                   arg_df, arg_key>>

\* the queries of the concurrent callers: two of different keys and a far range
RaceQueries ==
    { <<HarjuCounty, Education, 2020, 2021, AverageMonthly>>,
      <<AllOfEstonia, AllSectors, 2020, 2021, AverageMonthly>>,
      <<HarjuCounty, Education, 2020, FarYear, AverageMonthly>> }

NextRace ==
    \E t \in Callers :
        \/ \E q \in RaceQueries : Enter(t, q)
        \/ Check(t)
        \/ Fetch(t)
        \/ StoreFrame(t)
        \/ Return(t)

SpecRace == Init /\ [][NextRace]_vars

\* a region no table holds whose hashed strings give, in this model of hash(), the
\* variations of the whole country's: as 'Tallinn' does in Python under some salts
TallinnWages == <<"Tallinn", "_", "Average monthly gross wages">>

\* the queries digests are asked for: a county's sector over one, two and three
\* years, the baseline itself, a sector of the whole country, and the region
\* above
SummaryQueries ==
    { <<HarjuCounty, Education, 2020, 2020, AverageMonthly>>,
      <<HarjuCounty, Education, 2020, 2021, AverageMonthly>>,
      <<HarjuCounty, Education, 2020, 2022, MedianMonthly>>,
      <<AllOfEstonia, AllSectors, 2020, 2021, AverageMonthly>>,
      <<AllOfEstonia, Education, 2020, 2021, AverageMonthly>>,
      <<TallinnWages, AllSectors, 2020, 2021, AverageMonthly>> }

\* digests and bundles asked of one service, in any order
NextSummary ==
    \/ \E q \in SummaryQueries : PrepareDataForAIAnalysis(q)
    \/ \E q \in SummaryQueries : PrepareDataForExport(q)

SpecSummary == Init /\ [][NextSummary]_vars

\* a caller holding a frame of its own making
InitMetrics ==
    /\ hashSeed \in 0..MaxSeed
    /\ data_cache = <<>>
    /\ gen_calls = 0
    /\ generated = <<>>
    /\ bundles = <<>>
    /\ last = NoCall
    /\ ncalls = 0
    /\ arg_df \in InputFrames
    /\ arg_key = <<>>
    /\ threads = [t \in Callers |-> Idle]

\* the metrics operations called on the frame held, or on one fetched instead
NextMetrics ==
    \/ CalculateGrowthRates
    \/ \E n \in 0..MaxAhead : ForecastSalaryTrend(n)
    \/ \E c \in Comparisons : CompareWithNationalAverage(c[1], c[2], c[3])
    \/ \E q \in MetricQueries : GetSalaryData(q)

SpecMetrics == InitMetrics /\ [][NextMetrics]_vars

-----------------------------------------------------------------------------
(* Properties *)

MetricOps ==
    {"calculate_growth_rates", "compare_with_national_average", "forecast_salary_trend"}

\* a frame's rows with the given tag, as (Year, Value) rows
Tagged(df, tag) ==
    LET rs == SelectSeq(df.rows, LAMBDA r : r["Type"] = tag)
    IN [i \in 1..Len(rs) |-> BaseRow(rs[i]["Year"], rs[i]["Value"])]

\* a frame's rows as (Year, Value) rows, each value passed through f
Series(df, f(_)) ==
    [i \in 1..Len(df.rows) |-> BaseRow(df.rows[i]["Year"], f(df.rows[i]["Value"]))]

Same(v) == v

\* C1: prepare_data_for_export of a query with start_year <= end_year returns a
\* bundle; called again with the same query, whatever was called in between, it
\* returns a bundle equal to the first one and calls the generator zero times
C1_CacheIdempotence ==
    (last.op = "prepare_data_for_export" /\ last.q[3] <= last.q[4])
        => /\ last.exc = "none"
           /\ last.repeat => (last.ret = bundles[last.q] /\ last.gen = <<>>)

\* a third call that repeats the export of one of two queries exported before
C1_Witness ==
    /\ last.op = "prepare_data_for_export" /\ last.q[3] <= last.q[4]
    /\ last.repeat /\ last.exc = "none"
    /\ ncalls = 3 /\ Cardinality(DOMAIN bundles) = 2
    /\ last.ret = bundles[last.q] /\ gen_calls > 0 /\ last.gen = <<>>

\* C2: a call of get_mock_salary_data returns the series the first call with the
\* same (region, sector, start_year, end_year, data_type) returned, whatever was
\* called before and whatever the cache holds
C2_GeneratorDeterministic ==
    (last.op = "get_mock_salary_data" /\ last.repeat) => last.ret = generated[last.q]

\* C3: a key stored in data_cache stays in it and keeps the series it maps to, in
\* every step: get_salary_data, the metrics operations on the frame it returned,
\* the bundle and the digest
C3_CacheNeverReplaces ==
    [][\A k \in DOMAIN data_cache :
           k \in DOMAIN data_cache' /\ data_cache'[k] = data_cache[k]]_vars

\* a hit on a cache of several entries, after three calls
C3_Witness ==
    /\ last.op = "get_salary_data" /\ last.repeat /\ last.gen = <<>>
    /\ ncalls = 3 /\ Cardinality(DOMAIN data_cache) >= 2

\* C4: a cache hit of get_salary_data returns a series that was generated for
\* exactly the requested (region, sector, start_year, end_year, data_type)
C4_KeyIdentifiesQuery ==
    (last.op = "get_salary_data" /\ last.gen = <<>>)
        => (last.q \in DOMAIN generated /\ last.ret = generated[last.q])

\* C5: calculate_growth_rates, compare_with_national_average and
\* forecast_salary_trend leave the frame they are passed as it was: the caller's
\* frame, and the cache's entry when that frame is the one the cache holds
C5_InputUnchanged ==
    last.op \in MetricOps
        => /\ last.df = last.before
           /\ arg_df = last.before
           /\ arg_key \in DOMAIN data_cache => data_cache[arg_key] = last.before

\* a comparison made of the frame the cache holds
C5_Witness ==
    /\ last.op = "compare_with_national_average" /\ last.exc = "none"
    /\ arg_key \in DOMAIN data_cache /\ Len(last.before.rows) = 2
    /\ HasColumn(last.ret, "Difference (%)") /\ ~HasColumn(arg_df, "Difference (%)")
    /\ data_cache[arg_key] = last.before

\* C6: the growth rate calculate_growth_rates gives the first row of a non-empty
\* series is the number 0, whatever the values
C6_FirstGrowthZero ==
    (last.op = "calculate_growth_rates" /\ Len(last.before.rows) >= 1)
        => last.ret.rows[1]["Growth Rate (%)"] = Num(0)

\* a series that starts at 0: the second rate is infinite, the first one 0
C6_Witness ==
    /\ last.op = "calculate_growth_rates" /\ Len(last.before.rows) = 2
    /\ last.before.rows[1]["Value"] = Num(0)
    /\ last.ret.rows[1]["Growth Rate (%)"] = Num(0)
    /\ last.ret.rows[2]["Growth Rate (%)"] = PInf

\* C7: calculate_growth_rates of a non-empty series returns one row per row of the
\* input, each with a growth rate, with the input's years in the input's order
C7_GrowthShape ==
    (last.op = "calculate_growth_rates" /\ Len(last.before.rows) >= 1)
        => /\ last.exc = "none"
           /\ Len(last.ret.rows) = Len(last.before.rows)
           /\ Column(last.ret, "Year") = Column(last.before, "Year")
           /\ \A i \in 1..Len(last.ret.rows) :
                  "Growth Rate (%)" \in DOMAIN last.ret.rows[i]

\* a series whose years descend
C7_Witness ==
    /\ last.op = "calculate_growth_rates"
    /\ Column(last.before, "Year") = <<2021, 2020>>
    /\ Column(last.ret, "Year") = <<2021, 2020>>
    /\ last.ret.rows[2]["Growth Rate (%)"].k = "num"

\* C8 as stated: the rows forecast_salary_trend tags Historical are the rows of
\* the non-empty input: same years, same values, same order
C8_HistoricalExact ==
    (last.op = "forecast_salary_trend" /\ Len(last.before.rows) >= 1)
        => /\ last.exc = "none"
           /\ Tagged(last.ret, "Historical") = Series(last.before, Same)

\* C8: the rows forecast_salary_trend tags Historical are the rows of the
\* non-empty input in the input's order, with the same years, and each value
\* rounded to 2 decimals
C8_HistoricalRounded ==
    (last.op = "forecast_salary_trend" /\ Len(last.before.rows) >= 1)
        => /\ last.exc = "none"
           /\ Tagged(last.ret, "Historical") = Series(last.before, Round2)

\* a series with a value of more than 2 decimals, forecast ahead
C8_Witness ==
    /\ last.op = "forecast_salary_trend" /\ last.exc = "none" /\ last.q[1] >= 1
    /\ \E i \in 1..Len(last.before.rows) :
           /\ last.before.rows[i]["Value"] # Round2(last.before.rows[i]["Value"])
           /\ Tagged(last.ret, "Historical")[i]["Value"]
                  = Round2(last.before.rows[i]["Value"])

\* C9: forecast_salary_trend(series, n) of a non-empty series, n >= 0, has
\* exactly n rows tagged Forecast
C9_ForecastCount ==
    (last.op = "forecast_salary_trend" /\ Len(last.before.rows) >= 1)
        => /\ last.exc = "none"
           /\ Len(Tagged(last.ret, "Forecast")) = last.q[1]

\* two years forecast from two rows
C9_Witness ==
    /\ last.op = "forecast_salary_trend" /\ last.q[1] = 2
    /\ Len(last.before.rows) = 2
    /\ Len(Tagged(last.ret, "Forecast")) = 2
    /\ Len(last.ret.rows) = 4

\* v * 1.05 ** k for a Value v >= 0, rounded down to a thousandth
Grown5(v, k) == MulDiv(v, 105 ^ k, 100 ^ k)

\* C10: the forecast of a series of one point (y, v) grows by 5 % a year: its k-th
\* row is (y + k, v * 1.05 ** k), the value rounded to 2 decimals (less than 0.006
\* off)
C10_SinglePointRate ==
    (last.op = "forecast_salary_trend" /\ Len(last.before.rows) = 1)
        => /\ last.exc = "none"
           /\ Len(Tagged(last.ret, "Forecast")) = last.q[1]
           /\ \A k \in 1..last.q[1] :
                  /\ Tagged(last.ret, "Forecast")[k]["Year"]
                         = last.before.rows[1]["Year"] + k
                  /\ IsNum(Tagged(last.ret, "Forecast")[k]["Value"])
                  /\ Abs(Tagged(last.ret, "Forecast")[k]["Value"].v
                         - Grown5(last.before.rows[1]["Value"].v, k)) <= 5

\* the forecast of [(2020, 1000)] for 1 year is [(2021, 1050)]
C10_Witness ==
    /\ last.op = "forecast_salary_trend" /\ last.q = <<1>>
    /\ Series(last.before, Same) = <<BaseRow(2020, Num(1000000))>>
    /\ Tagged(last.ret, "Forecast") = <<BaseRow(2021, Num(1050000))>>

\* C11 as stated: a series of two or more rows whose first and last year are the
\* same is forecast at the fixed 5 %: no error, and the k-th value is the last
\* value * 1.05 ** k, a finite number
C11_SameYearFallback ==
    (/\ last.op = "forecast_salary_trend" /\ Len(last.before.rows) >= 2
     /\ last.before.rows[1]["Year"] = last.before.rows[Len(last.before.rows)]["Year"])
        => /\ last.exc = "none"
           /\ \A k \in 1..last.q[1] :
                  /\ IsNum(Tagged(last.ret, "Forecast")[k]["Value"])
                  /\ Abs(Tagged(last.ret, "Forecast")[k]["Value"].v
                         - Grown5(last.before.rows[Len(last.before.rows)]["Value"].v, k))
                         <= 5

\* C15: forecast_salary_trend of a series of no rows ends in an error, whatever n
\* is, and returns no table
C15_EmptyForecastFails ==
    (last.op = "forecast_salary_trend" /\ Len(last.before.rows) = 0)
        => (last.exc # "none" /\ last.ret = NoFrame)

\* the empty series forecast, for no year and for two
C15_Witness ==
    /\ last.op = "forecast_salary_trend" /\ last.q[1] \in {0, 2}
    /\ last.before = DataFrame(BaseColumns, <<>>)
    /\ last.exc = "IndexError"

\* C16 as stated: forecast_salary_trend of a series of two or more rows whose
\* first value is <= 0 ends in an error
C16_NonPositiveFirstFails ==
    (/\ last.op = "forecast_salary_trend" /\ Len(last.before.rows) >= 2
     /\ last.before.rows[1]["Value"].v <= 0)
        => last.exc # "none"

\* C13 as stated: compare_with_national_average of the baseline (the whole
\* country, all sectors) returns the series it was passed, with no comparison
\* column, and calls no generator
C13_BaselineAlways ==
    (/\ last.op = "compare_with_national_average"
     /\ last.q[1] = AllOfEstonia /\ last.q[2] = AllSectors)
        => /\ last.exc = "none"
           /\ last.ret = last.before
           /\ last.gen = <<>>

\* C13: compare_with_national_average of the baseline (the whole country, all
\* sectors), passed a series of at least one row, returns that series as it is,
\* calls no generator and leaves the cache as it was
C13_BaselineIdentity ==
    [][(/\ ncalls' = ncalls + 1
        /\ last'.op = "compare_with_national_average"
        /\ last'.q[1] = AllOfEstonia /\ last'.q[2] = AllSectors
        /\ Len(arg_df.rows) >= 1)
           => /\ last'.exc = "none"
              /\ last'.ret = arg_df
              /\ arg_df' = arg_df
              /\ gen_calls' = gen_calls
              /\ data_cache' = data_cache]_vars

\* the baseline compared: two rows back, no column added, nothing generated
C13_Witness ==
    /\ last.op = "compare_with_national_average"
    /\ last.q[1] = AllOfEstonia /\ last.q[2] = AllSectors
    /\ Len(last.before.rows) = 2 /\ last.ret = last.before
    /\ ~HasColumn(last.ret, "Difference (%)")
    /\ gen_calls = 0 /\ data_cache = <<>>


\* the years start, start + 1, ..., end
YearsOf(q) == [i \in 1..(q[4] - q[3] + 1) |-> q[3] + i - 1]

\* C14: a call of the generator with end_year < start_year ends in an error: it
\* returns no series, empty or not
C14_InvalidRangeFails ==
    (last.op = "get_mock_salary_data" /\ last.q[3] > last.q[4]) => last.exc # "none"

\* C19: a series the generator returns for start_year <= end_year has exactly
\* end_year - start_year + 1 entries, whose years are start_year, start_year + 1,
\* ..., end_year in this order; and one is returned for every such range whose
\* compound growth a float holds
C19_YearsOfRange ==
    (last.op = "get_mock_salary_data" /\ last.q[3] <= last.q[4])
        => /\ last.exc = "none" => /\ Len(last.ret.rows) = last.q[4] - last.q[3] + 1
                                   /\ Column(last.ret, "Year") = YearsOf(last.q)
           /\ last.exc # "none" => last.q[4] - last.q[3] >= power_limit[72]

\* a range of three years, generated
C19_Witness ==
    /\ last.op = "get_mock_salary_data" /\ last.exc = "none"
    /\ last.q[3] = 2020 /\ last.q[4] = 2022
    /\ Column(last.ret, "Year") = <<2020, 2021, 2022>>

\* the parameters of a query, each looked up on its own
ParamsOf(q) ==
    [base_value |-> IF q[2] \in DOMAIN sector_base THEN sector_base[q[2]] ELSE 1200,
     growth_rate |-> IF q[2] \in DOMAIN sector_growth THEN sector_growth[q[2]] ELSE 50,
     region_multiplier |-> IF q[1] \in DOMAIN region_factor THEN region_factor[q[1]]
                           ELSE 100,
     data_type_multiplier |-> IF q[5] \in DOMAIN data_type_factor
                              THEN data_type_factor[q[5]] ELSE <<1, 1>>]

\* the value of year i of a series with parameters p and the given variation
Priced(p, i, factor) ==
    Num(10 * RoundHalfEven(
            MulDiv(MulDiv(MulDiv(Compound(p.base_value * 100000, p.growth_rate, i),
                                 p.region_multiplier, 100),
                          p.data_type_multiplier[1], p.data_type_multiplier[2]),
                   factor[1], factor[2]),
            1, 1000))

UnknownCategory(q) ==
    \/ q[1] \notin DOMAIN region_factor
    \/ q[2] \notin DOMAIN sector_base
    \/ q[5] \notin DOMAIN data_type_factor

\* C12: a call of the generator with a region, sector or data type no table holds
\* raises nothing on that account and returns a series, priced with base 1200 and
\* growth 5.0% for an unknown sector, region multiplier 1.0 for an unknown region,
\* data type multiplier 1.0 for an unknown data type, and with the tables' values
\* for the fields that are known
C12_DefaultsForUnknown ==
    (last.op = "get_mock_salary_data" /\ UnknownCategory(last.q)
        /\ last.q[4] - last.q[3] < power_limit[72])
        => /\ last.exc = "none"
           /\ last.params = ParamsOf(last.q)
           /\ Len(last.ret.rows) = Len(last.noise)
           /\ \A i \in 1..Len(last.ret.rows) :
                  last.ret.rows[i]["Value"]
                      = Priced(ParamsOf(last.q), i - 1, last.noise[i].factor)

\* a known region with an unknown sector and an unknown data type
C12_Witness ==
    /\ last.op = "get_mock_salary_data" /\ last.exc = "none"
    /\ last.q[1] \in DOMAIN region_factor /\ region_factor[last.q[1]] # 100
    /\ last.q[2] \notin DOMAIN sector_base
    /\ last.q[5] \notin DOMAIN data_type_factor
    /\ Len(last.ret.rows) = 2
    /\ last.params.base_value = 1200 /\ last.params.growth_rate = 50
    /\ last.params.data_type_multiplier = <<1, 1>>

\* the factor is between 0.98 and 1.02
InBand(factor) ==
    /\ factor[2] > 0
    /\ 98 * factor[2] <= 100 * factor[1]
    /\ 100 * factor[1] <= 102 * factor[2]

\* C20: the factor of every year of a generated series is in [0.98, 1.02], as it
\* is for every hash value of either sign; and two calls of the generator in one
\* process for the same region and sector, whatever their data types and ranges,
\* use the same factor for each year they share
C20_PerturbationOfYear ==
    /\ ncalls = 0 => \A h \in -1000..1000 : InBand(variation(h))
    /\ last.op = "get_mock_salary_data"
        => /\ \A i \in 1..Len(last.noise) : InBand(last.noise[i].factor)
           /\ (/\ last.prior.q # <<>> /\ last.prior.salt = last.salt
               /\ last.prior.q[1] = last.q[1] /\ last.prior.q[2] = last.q[2])
                 => \A i \in 1..Len(last.noise), j \in 1..Len(last.prior.noise) :
                        last.noise[i].year = last.prior.noise[j].year
                            => last.noise[i].factor = last.prior.noise[j].factor

\* a year of negative hash, generated a second time for another data type and
\* another range
C20_Witness ==
    /\ last.op = "get_mock_salary_data" /\ last.exc = "none"
    /\ last.prior.q # <<>> /\ last.prior.salt = last.salt
    /\ last.prior.q[1] = last.q[1] /\ last.prior.q[2] = last.q[2]
    /\ last.prior.q[5] # last.q[5] /\ last.prior.q[4] # last.q[4]
    /\ \E i \in 1..Len(last.noise), j \in 1..Len(last.prior.noise) :
           /\ last.noise[i].year = last.prior.noise[j].year
           /\ last.noise[i].h < 0
           /\ last.noise[i].factor = last.prior.noise[j].factor


\* the error the operations of an export of q meet first, on a cache that holds no
\* frame for another query under q's key: the generator's, or the comparison's on
\* the empty frame of an empty range
FirstFailure(op, q) ==
    IF Raised(q[2], q[3], q[4]) # "none" THEN Raised(q[2], q[3], q[4])
    ELSE IF op # "get_salary_data" /\ q[3] > q[4] THEN "ValueError"
    ELSE "none"

\* C17: a call of get_salary_data, of the bundle operation or of the digest ends
\* in the error the generator raised in it, or else in the error a metrics
\* operation raised in it, and in no other; it then returns nothing and nothing is
\* cached under the query's key
C17_FailurePropagates ==
    last.op \in {"get_salary_data", "prepare_data_for_export",
                 "prepare_data_for_ai_analysis"}
        => /\ \A i \in 1..Len(last.gen) :
                  last.gen[i].exc # "none" => last.exc = last.gen[i].exc
           /\ last.exc = FirstFailure(last.op, last.q)
           /\ last.exc # "none" => last.ret = NoFrame
           /\ Raised(last.q[2], last.q[3], last.q[4]) # "none"
                 => CacheKey(last.q[1], last.q[2], last.q[3], last.q[4], last.q[5])
                        \notin DOMAIN data_cache

\* an export in which the generator raised OverflowError, after one in which the
\* comparison raised ValueError on the empty frame, now cached
C17_Witness ==
    /\ last.op = "prepare_data_for_export" /\ last.exc = "OverflowError"
    /\ Len(last.gen) = 1 /\ last.gen[1].exc = "OverflowError"
    /\ last.ret = NoFrame
    /\ \E k \in DOMAIN data_cache : Len(data_cache[k].rows) = 0
    /\ gen_calls = 2


\* two callers that have both returned from get_salary_data for the same query
BothReturned(q) == \A t \in Callers : threads[t].pc = "done" /\ threads[t].q = q

\* C18: when two callers have run get_salary_data for the same query at the same
\* time, in whatever order their steps were taken, both have received equal series,
\* the cache holds under the query's key one frame, equal to the frame a call made
\* alone stores, and nothing else but the number of generator calls tells the race
C18_RaceIsBenign ==
    \A q \in RaceQueries :
        BothReturned(q)
            => /\ threads[1].ret = threads[2].ret
               /\ threads[1].key = threads[2].key
               /\ threads[1].key \in DOMAIN data_cache
               /\ data_cache[threads[1].key] = threads[1].ret
               /\ data_cache[threads[1].key]
                    = get_salary_data(<<>>, q[1], q[2], q[3], q[4], q[5]).ret
               /\ DOMAIN data_cache
                    \subseteq {CacheKey(r[1], r[2], r[3], r[4], r[5]) : r \in RaceQueries}
               /\ generated[q] = threads[1].ret
               /\ gen_calls \in 1..ncalls

\* both callers missed the cache, both called the generator and both stored
C18_Witness ==
    /\ \E q \in RaceQueries : BothReturned(q)
    /\ ncalls = 2 /\ gen_calls = 2
    /\ Cardinality(DOMAIN data_cache) = 1
    /\ threads[1].ret = threads[2].ret /\ Len(threads[1].ret.rows) = 2


\* every cell of the column is a number greater than 0
Positive(df, col) ==
    \A i \in 1..Len(df.rows) : IsNum(df.rows[i][col]) /\ df.rows[i][col].v > 0

\* every cell of the column is a number: no infinity and no nan
Finite(df, col) == \A i \in 1..Len(df.rows) : IsNum(df.rows[i][col])

\* the names of each table and one name none of them holds
AnyRegion == DOMAIN region_factor \cup {HarjuEducation}
AnySector == DOMAIN sector_base \cup {EducationEducation}
AnyDataType == DOMAIN data_type_factor \cup {NetMonthly}

\* C21: every value the generator prices is greater than 0, for every region,
\* sector and data type of the tables or of none, at both ends of the variation;
\* so are the values of every series get_salary_data returns, and in a bundle
\* returned for start_year <= end_year the base and baseline values are greater than 0, the
\* first and last year of a series of two or more points differ, and every growth
\* rate, difference and forecast value is a finite number
C21_ValuesPositive ==
    /\ ncalls = 0 =>
           \A r \in AnyRegion, s \in AnySector, d \in AnyDataType, i \in 0..MaxLen,
              f \in {24500, 25499} :
               Priced(ParamsOf(<<r, s, 0, 0, d>>), i, <<f, 25000>>).v > 0
    /\ (last.op = "get_salary_data" /\ last.exc = "none") => Positive(last.ret, "Value")
    /\ (last.op = "prepare_data_for_export" /\ last.q[3] <= last.q[4]
            /\ last.exc = "none")
           => /\ Positive(last.ret.base_data, "Value")
              /\ Len(last.ret.base_data.rows) >= 2
                     => last.ret.base_data.rows[1]["Year"]
                            # last.ret.base_data.rows[Len(last.ret.base_data.rows)]["Year"]
              /\ Finite(last.ret.growth_rates, "Growth Rate (%)")
              /\ HasColumn(last.ret.comparison, "National Average")
                     => /\ Positive(last.ret.comparison, "National Average")
                        /\ Finite(last.ret.comparison, "Difference (%)")
              /\ Finite(last.ret.forecast, "Value")

\* a bundle of a county's sector over two years: a comparison and a growth rate
\* were divided out
C21_Witness ==
    /\ last.op = "prepare_data_for_export" /\ last.exc = "none"
    /\ last.q[3] < last.q[4]
    /\ HasColumn(last.ret.comparison, "National Average")
    /\ Len(last.ret.comparison.rows) = 2
    /\ Positive(last.ret.comparison, "National Average")
    /\ Len(Tagged(last.ret.forecast, "Forecast")) = 3


\* the subject of a comparison is not the baseline itself
NotBaseline(args) == ~(args[1] = AllOfEstonia /\ args[2] = AllSectors)

\* C22: the comparison of a subject that is not the baseline, with one entry or
\* more, has exactly one row for each entry of the subject, in the subject's
\* order, with the entry's year and value: the join drops no year and repeats
\* none; the baseline was looked up for the range from the least to the greatest
\* year of the subject
C22_OneRowPerYear ==
    (last.op = "compare_with_national_average" /\ NotBaseline(last.q)
        /\ Len(last.before.rows) >= 1)
        => /\ last.exc = "none"
           /\ Len(last.ret.rows) = Len(last.before.rows)
           /\ \A i \in 1..Len(last.before.rows) :
                  /\ last.ret.rows[i]["Year"] = last.before.rows[i]["Year"]
                  /\ last.ret.rows[i]["Selected"] = last.before.rows[i]["Value"]
           /\ \A i \in 1..Len(last.gen) :
                  /\ last.gen[i].q[3] = SeqMin(Column(last.before, "Year"))
                  /\ last.gen[i].q[4] = SeqMax(Column(last.before, "Year"))
                  /\ Column(last.gen[i].df, "Year")
                         = Range(SeqMin(Column(last.before, "Year")),
                                 SeqMax(Column(last.before, "Year")))

\* a county's sector over 2020 and 2021 compared: two rows, the baseline generated
\* for 2020..2021
C22_Witness ==
    /\ last.op = "compare_with_national_average" /\ NotBaseline(last.q)
    /\ last.exc = "none"
    /\ Column(last.before, "Year") = <<2020, 2021>>
    /\ Column(last.ret, "Year") = <<2020, 2021>>
    /\ Len(last.gen) = 1 /\ last.gen[1].q[3] = 2020 /\ last.gen[1].q[4] = 2021


\* (cur / prev - 1) * 100 to the nearest hundredth, for Values prev # 0 and cur
RateOver(prev, cur) ==
    Num((IF (cur < prev) # (prev < 0) THEN -1 ELSE 1)
        * RoundHalfEven(Abs(cur - prev), 10000, Abs(prev)))

\* C23: in the table calculate_growth_rates returns, the growth rate of every row
\* after the first whose preceding value is a number other than 0 is
\* (value / preceding value - 1) * 100 rounded to 2 decimals, whatever the rows
\* before the preceding one hold
C23_GrowthFromPrevious ==
    last.op = "calculate_growth_rates"
        => \A i \in 2..Len(last.before.rows) :
               (/\ IsNum(last.before.rows[i - 1]["Value"])
                /\ IsNum(last.before.rows[i]["Value"])
                /\ last.before.rows[i - 1]["Value"].v # 0)
                   => last.ret.rows[i]["Growth Rate (%)"]
                          = RateOver(last.before.rows[i - 1]["Value"].v,
                                     last.before.rows[i]["Value"].v)

\* a series of three years: the third rate is the change since the second value,
\* which is not the change since the first
C23_Witness ==
    /\ last.op = "calculate_growth_rates" /\ Len(last.before.rows) = 3
    /\ last.ret.rows[3]["Growth Rate (%)"]
           = RateOver(last.before.rows[2]["Value"].v, last.before.rows[3]["Value"].v)
    /\ last.ret.rows[3]["Growth Rate (%)"]
           # RateOver(last.before.rows[1]["Value"].v, last.before.rows[3]["Value"].v)
    /\ last.ret.rows[3]["Growth Rate (%)"].v > 0


\* the first and the last row of a frame, and the years between them
FirstRow(df) == df.rows[1]
LastRow(df) == df.rows[Len(df.rows)]
YearsSpanned(df) == LastRow(df)["Year"] - FirstRow(df)["Year"]

\* last_value / first_value as a factor in millionths; its inverse when the years
\* descend, where the exponent 1 / num_years is negative
ValueRatio(df) ==
    IF YearsSpanned(df) > 0
    THEN RoundHalfEven(LastRow(df)["Value"].v, One, FirstRow(df)["Value"].v)
    ELSE RoundHalfEven(FirstRow(df)["Value"].v, One, LastRow(df)["Value"].v)

\* C24: for a series of two or more points with positive first and last values
\* and last_year # first_year, 1 + rate is the root of degree last_year -
\* first_year of last_value / first_value (to a millionth), and the k-th forecast
\* value, k = 1..n, is last_value * (1 + rate) ** k rounded to 2 decimals
C24_CompoundFromLast ==
    (/\ last.op = "forecast_salary_trend" /\ Len(last.before.rows) >= 2
     /\ YearsSpanned(last.before) # 0
     /\ FirstRow(last.before)["Value"].v > 0 /\ LastRow(last.before)["Value"].v > 0)
        => /\ last.exc = "none"
           /\ IsNum(Cagr1(last.before))
           /\ PowFactor(Cagr1(last.before).v, Abs(YearsSpanned(last.before)))
                  <= ValueRatio(last.before)
           /\ PowFactor(Cagr1(last.before).v + 1, Abs(YearsSpanned(last.before)))
                  > ValueRatio(last.before)
           /\ Len(Tagged(last.ret, "Forecast")) = last.q[1]
           /\ \A k \in 1..last.q[1] :
                  Tagged(last.ret, "Forecast")[k]["Value"]
                      = Round2(Times(LastRow(last.before)["Value"],
                                     Num(PowFactor(Cagr1(last.before).v, k))))

\* three rising years forecast for two more: the rate is a square root, and the
\* second forecast value is the last value times last / first, a cent or so apart,
\* and far from the first value times that
C24_Witness ==
    /\ last.op = "forecast_salary_trend" /\ last.q = <<2>>
    /\ Len(last.before.rows) = 3 /\ YearsSpanned(last.before) = 2
    /\ FirstRow(last.before)["Value"].v > 0
    /\ LastRow(last.before)["Value"].v > FirstRow(last.before)["Value"].v
    /\ Abs(Tagged(last.ret, "Forecast")[2]["Value"].v
           - MulDiv(LastRow(last.before)["Value"].v, LastRow(last.before)["Value"].v,
                    FirstRow(last.before)["Value"].v)) <= 20
    /\ Tagged(last.ret, "Forecast")[2]["Value"].v
           > LastRow(last.before)["Value"].v + 20


\* a series as the generator makes them: one entry or more, each year one more
\* than the year before
IsTimeSeries(df) ==
    /\ Len(df.rows) >= 1
    /\ \A i \in 2..Len(df.rows) : df.rows[i]["Year"] = df.rows[i - 1]["Year"] + 1

\* C25: in the table forecast_salary_trend(series, n) returns for a non-empty
\* input, every row is tagged Historical or Forecast, the Historical rows are the
\* first ones, one per input row, the Forecast rows follow with the years
\* last_year + 1, ..., last_year + n in this order, last_year being the year of
\* the input's last row; for a series of consecutive years the years of the whole
\* table are consecutive
C25_TagsAndYears ==
    (last.op = "forecast_salary_trend" /\ Len(last.before.rows) >= 1)
        => /\ last.exc = "none"
           /\ Len(last.ret.rows) = Len(last.before.rows) + last.q[1]
           /\ \A i \in 1..Len(last.ret.rows) :
                  last.ret.rows[i]["Type"]
                      = IF i <= Len(last.before.rows) THEN "Historical" ELSE "Forecast"
           /\ \A k \in 1..last.q[1] :
                  last.ret.rows[Len(last.before.rows) + k]["Year"]
                      = LastRow(last.before)["Year"] + k
           /\ IsTimeSeries(last.before) => IsTimeSeries(last.ret)

\* 2020 and 2021 forecast for two years: the table's years are 2020..2023
C25_Witness ==
    /\ last.op = "forecast_salary_trend" /\ last.q = <<2>>
    /\ Column(last.before, "Year") = <<2020, 2021>>
    /\ Column(last.ret, "Year") = <<2020, 2021, 2022, 2023>>
    /\ Column(last.ret, "Type") = <<"Historical", "Historical", "Forecast", "Forecast">>


\* the query of the baseline of a subject (region, sector, data_type) whose years
\* are those of df
BaselineQuery(args, df) ==
    <<AllOfEstonia, IF args[1] # AllOfEstonia THEN args[2] ELSE AllSectors,
      SeqMin(Column(df, "Year")), SeqMax(Column(df, "Year")), args[3]>>

BaselineKey(args, df) ==
    CacheKey(BaselineQuery(args, df)[1], BaselineQuery(args, df)[2],
             BaselineQuery(args, df)[3], BaselineQuery(args, df)[4],
             BaselineQuery(args, df)[5])

\* the value the frame has for year y
ValueOf(df, y) == (CHOOSE r \in SeqToSet(df.rows) : r["Year"] = y)["Value"]

\* C26: the baseline of a comparison is the series of the whole country for the
\* subject's sector when the region is not the whole country, and for all sectors
\* when it is, with the subject's data type, from the subject's least to its
\* greatest year: that query and no other is made of the generator when the
\* cache does not hold it, it is cached afterwards, and its values are the
\* table's National Average
C26_BaselineChoice ==
    (last.op = "compare_with_national_average" /\ NotBaseline(last.q)
        /\ Len(last.before.rows) >= 1)
        => /\ \A i \in 1..Len(last.gen) :
                  last.gen[i].q = BaselineQuery(last.q, last.before)
           /\ Len(last.gen) <= 1
           /\ BaselineKey(last.q, last.before) \in DOMAIN data_cache
           /\ \A i \in 1..Len(last.ret.rows) :
                  last.ret.rows[i]["National Average"]
                      = ValueOf(data_cache[BaselineKey(last.q, last.before)],
                                last.ret.rows[i]["Year"])
           /\ BaselineQuery(last.q, last.before) \in DOMAIN generated
           /\ generated[BaselineQuery(last.q, last.before)].rows # <<>>

\* a sector of the whole country compared: the baseline generated is all sectors
C26_Witness ==
    /\ last.op = "compare_with_national_average"
    /\ last.q = <<AllOfEstonia, Education, AverageMonthly>>
    /\ Column(last.before, "Year") = <<2020, 2021>>
    /\ Len(last.gen) = 1
    /\ last.gen[1].q = <<AllOfEstonia, AllSectors, 2020, 2021, AverageMonthly>>
    /\ Len(last.ret.rows) = 2


\* C27 as stated: in every state, the frame cached under the key of a query
\* (region, sector, start_year, end_year, data_type) whose generation succeeds is
\* the series the generator returns for that query
C27_CacheCoherent ==
    \A q \in Queries :
        CacheKey(q[1], q[2], q[3], q[4], q[5]) \in DOMAIN data_cache
            => data_cache[CacheKey(q[1], q[2], q[3], q[4], q[5])]
                   = get_mock_salary_data(q[1], q[2], q[3], q[4], q[5])


\* the key of a query
KeyOf(q) == CacheKey(q[1], q[2], q[3], q[4], q[5])

\* the keys a bundle for q needs: the subject's, and the baseline's when the
\* subject is not the baseline
KeysOfBundle(q) ==
    {KeyOf(q)} \cup
    (IF NotBaseline(q)
     THEN {KeyOf(<<AllOfEstonia, IF q[1] # AllOfEstonia THEN q[2] ELSE AllSectors,
                   q[3], q[4], q[5]>>)}
     ELSE {})

C29_FailureLeavesCache ==
    (/\ ncalls = 1
     /\ last.op \in {"prepare_data_for_export", "get_salary_data"}
     /\ last.exc # "none")
        => data_cache = <<>>


\* the frames a digest of q is made from, taken again from the cache the call left
SubjectFrame(q) == data_cache[KeyOf(q)]
ComparisonFrame(q) ==
    compare_with_national_average(data_cache, SubjectFrame(q), q[1], q[2], q[5]).ret
ForecastFrame(q) == forecast_salary_trend(SubjectFrame(q), DefaultForecastYears).ret
Digested == last.op = "prepare_data_for_ai_analysis" /\ last.exc = "none"

\* C30: in a digest returned, latest_yoy_change is 0 when the base series has one
\* point and else the rounded change from the last but one value to the last; the
\* average difference is 0 with no difference column when the subject is the
\* baseline, and else the rounded mean of the difference column; forecast_years
\* and forecast_values are those of the rows tagged Forecast, the 3 years after
\* the last historical one
C30_DigestFields ==
    Digested =>
        LET q == last.q
            d == last.ret
            n == Len(d.values)
            fc == Tagged(ForecastFrame(q), "Forecast")
        IN /\ d.years = Column(SubjectFrame(q), "Year")
           /\ d.values = Column(SubjectFrame(q), "Value")
           /\ n = 1 => d.latest_yoy_change = Num(0)
           /\ n > 1 => d.latest_yoy_change
                           = RoundPct(PctOver(d.values[n - 1], d.values[n]))
           /\ ~NotBaseline(q)
                  => /\ ~HasColumn(ComparisonFrame(q), "Difference (%)")
                     /\ d.avg_diff_from_national = Num(0)
           /\ NotBaseline(q)
                  => /\ HasColumn(ComparisonFrame(q), "Difference (%)")
                     /\ d.avg_diff_from_national
                            = RoundMean(Column(ComparisonFrame(q), "Difference (%)"))
           /\ Len(d.forecast_years) = 3
           /\ d.forecast_years = [i \in 1..3 |-> d.years[n] + i]
           /\ d.forecast_years = [i \in 1..Len(fc) |-> fc[i]["Year"]]
           /\ d.forecast_values = [i \in 1..Len(fc) |-> fc[i]["Value"]]
           /\ Len(Tagged(ForecastFrame(q), "Historical")) = n

\* a digest of a county's sector over three years: a change from the last two
\* values, a mean difference that is not 0, three forecast years after 2022
C30_Witness ==
    /\ Digested
    /\ last.q = <<HarjuCounty, Education, 2020, 2022, MedianMonthly>>
    /\ Len(last.ret.values) = 3
    /\ last.ret.latest_yoy_change # Num(0)
    /\ last.ret.avg_diff_from_national # Num(0)
    /\ last.ret.forecast_years = <<2023, 2024, 2025>>
    /\ Len(last.ret.forecast_values) = 3

\* C30 as stated: in a digest returned, the average difference from the baseline
\* is 0 exactly when the subject is the baseline
C30_ZeroIffBaseline ==
    Digested => (last.ret.avg_diff_from_national = Num(0) <=> ~NotBaseline(last.q))

====
